---------------------------- MODULE Spec2Model ----------------------------
(***************************************************************************)
(* Landlord (src/main.go): a service that hands out one port per tenant    *)
(* from a bounded pool kept in a Redis store, runs an external manager     *)
(* tool to set the instance up, and answers each instruction received on   *)
(* the "landlord.request" channel on "landlord.response." + ReplyTo.       *)
(*                                                                         *)
(* One action is one suspension point of the code: a store round trip      *)
(* (dial + command on the connection just dialled), the return of the      *)
(* manager tool, or the publication of the response.  A dial touches no    *)
(* shared state, so it is folded into the action of the command that       *)
(* follows it; its failure is an outcome of that action.                   *)
(***************************************************************************)
EXTENDS Integers, Sequences, FiniteSets, TLC

(***************************************************************************)
(* Bounds of the model.                                                    *)
(***************************************************************************)
\* cfg.TenantPortBase and cfg.MaxTenants as configured for the model: the
\* pool 9..10 has ports of one and of two decimal digits.
TenantPortBase == 9
MaxTenants == 2
\* Handler goroutines that can be in flight at once; a finished handler's
\* slot is taken again by a later instruction.
MaxHandlers == 2

Slots == 1..MaxHandlers
PoolRange == TenantPortBase..(TenantPortBase + MaxTenants - 1)

(***************************************************************************)
(* Inputs.                                                                 *)
(***************************************************************************)
\* Tenant ids an instruction can carry: two that match idRe, the empty id
\* and one with a character outside the class.
ValidIds == {"a", "b"}
InvalidIds == {"", "bad id!"}
Ids == ValidIds \cup InvalidIds
Ops == {"Setup", "Delete", "GetPort", "Bogus"}
ReplyTos == {"x", "y"}
\* What cmd.CombinedOutput() can return as error text ("" is a nil error).
ToolExitCodes == {0, 3, 7, 9}
ExitStatus(n) == "exit status " \o ToString(n)
ToolErrors == {IF n = 0 THEN "" ELSE ExitStatus(n) : n \in ToolExitCodes}
                 \cup {"signal: killed"}
\* The text of a store communication failure, and of redigo's ErrNil.
StoreErr == "connection refused"
ErrNil == "redigo: nil returned"

(***************************************************************************)
(* Texts of main.go.                                                       *)
(***************************************************************************)
MsgInvalidId == "Invalid id."
MsgUnknownOp == "Unknown operation."
MsgNoFreePorts ==
    "No free ports. Increase MaxTenants, or set up a new Landlord server."
MsgNotExist == "Instance does not exist."
MsgDial == "Dialling error: " \o StoreErr
MsgFetch(e) == "Unable to fetch a free port: " \o e
MsgRelease(p, e) == "Unable to release port " \o ToString(p) \o ": " \o e
MsgGetPort(id, e) == "Unable to get port for " \o id \o ": " \o e
ScriptArgErr ==
    "ERR Error running script: Lua redis() command arguments must be strings or integers"
ResponseChannel(recipient) == "landlord.response." \o recipient

\* idRe.MatchString
IdMatches(id) == id \in ValidIds

(***************************************************************************)
(* The manager's exit codes (managerErrors) and parseManagerError.         *)
(***************************************************************************)
ManagerErrorCodes == 1..8
ManagerErrors(c) ==
    CASE c = 1 -> "Invalid command."
      [] c = 2 -> "Invalid instance id."
      [] c = 3 -> "Invalid port."
      [] c = 4 -> "Sudo required."
      [] c = 5 -> "Already installed"
      [] c = 6 -> "Landlord not installed correctly."
      [] c = 7 -> "Instance already exists."
      [] c = 8 -> "Instance not enabled."

\* errRe matches "exit status <digits>"; an exit code is 0..255.
ParseManagerError(err) ==
    IF \E n \in 0..255 : err = ExitStatus(n)
    THEN LET id == CHOOSE n \in 0..255 : err = ExitStatus(n)
         IN  IF id \in ManagerErrorCodes
             THEN [ExitCode |-> id, Message |-> ManagerErrors(id)]
             ELSE [ExitCode |-> id,
                   Message |-> "Unknown exit status (" \o ToString(id) \o ")"]
    ELSE [ExitCode |-> 0, Message |-> "Unknown error (" \o err \o ")."]

\* fmt.Errorf("%s", v) of a ManagerError value: Error() has a pointer
\* receiver, so the value is no error and is printed as a struct.
FormatManagerError(me) ==
    "{%!s(int=" \o ToString(me.ExitCode) \o ") " \o me.Message \o "}"

(***************************************************************************)
(* The sorted set of the allocation script: every member has score 1, so   *)
(* ZRANGE orders the members as byte strings.                              *)
(***************************************************************************)
RECURSIVE DecDigits(_)
DecDigits(n) == IF n < 10 THEN <<n>> ELSE Append(DecDigits(n \div 10), n % 10)

RECURSIVE LexLess(_, _)
LexLess(s, t) ==
    IF s = <<>> THEN t # <<>>
    ELSE IF t = <<>> THEN FALSE
    ELSE IF Head(s) # Head(t) THEN Head(s) < Head(t)
    ELSE LexLess(Tail(s), Tail(t))

\* ZRANGE key 0 0 of a non-empty set loaded by ZINTERSTORE.
ZFirst(S) ==
    CHOOSE x \in S : \A y \in S \ {x} : LexLess(DecDigits(x), DecDigits(y))


(***************************************************************************)
(* State.                                                                  *)
(***************************************************************************)
VARIABLES
    phase,      \* main(): "boot", "prepared", "listening"; ended: "startfail"
                \* (panic in main), "exited" (Receive failed, main returned),
                \* "crashed" (a panic no recover caught)
    possible,   \* store set landlord:ports:possible
    occupied,   \* store set landlord:ports:occupied
    tenants,    \* store set landlord:tenants
    portOf,     \* store keys landlord:tenant:<id>:port (0: no such key)
    handler,    \* per slot: the goroutine of one handleInstruction call
    occ0,       \* history: occupied as the behaviour's handlers found it
                \* (as prepareDb left it)
    lastRecv    \* history: the slot of the instruction decoded last (0 when
                \* none was, or the last message was dropped)

vars == <<phase, possible, occupied, tenants, portOf, handler, occ0, lastRecv>>
store == <<possible, occupied, tenants, portOf>>

NoResponse == [shape |-> "", Id |-> "", Status |-> "", Error |-> "", Port |-> 0]
PlainResponse(id, status, error) ==
    [shape |-> "Plain", Id |-> id, Status |-> status, Error |-> error, Port |-> 0]
SetupResponse(id, status, error, port) ==
    [shape |-> "Setup", Id |-> id, Status |-> status, Error |-> error, Port |-> port]

\* A slot no goroutine runs in.
Idle ==
    [pc |-> "idle", Op |-> "", Id |-> "", ReplyTo |-> "",
     port |-> 0,            \* setupInstance's local port
     perr |-> "",           \* the value of the panic being recovered
     rsp |-> NoResponse,    \* the response built for dispatchResponse; in
                            \* "done", the response that was published
     chan |-> "",           \* the channel it was published on
     npub |-> 0,            \* responses published for the instruction
     got |-> -1,            \* history: what getFreePort returned (-1: no call)
     rel |-> 0,             \* history: SREMs issued by releasePort
     looked |-> FALSE,      \* history: getPort was called
     terr |-> "-",          \* history: the tool's error text ("-": not run)
     fault |-> FALSE]       \* history: a store command or dial failed

Spawned(op, id, replyTo) ==
    [Idle EXCEPT !.pc = "start", !.Op = op, !.Id = id, !.ReplyTo = replyTo]

\* The service starts: the store holds whatever earlier runs left, and a
\* tenant is registered with the port key the manager wrote for it.
Init ==
    /\ phase = "boot"
    /\ possible \in {{}, PoolRange}
    /\ occupied \in SUBSET PoolRange
    /\ portOf \in [ValidIds -> {0, TenantPortBase}]
    /\ tenants = {id \in ValidIds : portOf[id] # 0}
    /\ handler = [s \in Slots |-> Idle]
    /\ occ0 = {}
    /\ lastRecv = 0

(***************************************************************************)
(* The store scripts.  Each yields the set of results the script can have  *)
(* once the store runs it: [err, ...] with err = "" for a reply without    *)
(* error.  redis.call with a nil or false argument is an error; the store  *)
(* either hands it to the script as the call's value, and the script goes  *)
(* on, or raises it and aborts the script, depending on its version.       *)
(***************************************************************************)
\* The script of getFreePort and the conversion of its reply (redis.Int).
GetFreePortScript(poss, occ) ==
    LET available == poss \ occ                \* SDIFFSTORE, ZINTERSTORE
    IN  IF available = {}
        THEN \* freePort = nil: SADD occupied nil
             {[err |-> "", ret |-> 0, occ |-> occ],
              [err |-> ScriptArgErr, ret |-> 0, occ |-> occ]}
        ELSE LET freePort == ZFirst(available)  \* ZRANGE 0 0
             IN  {[err |-> "", ret |-> freePort, occ |-> occ \cup {freePort}]}

\* The script of refreshOccupiedPorts: DEL occupied, then per tenant GET its
\* port key and SADD it.  A tenant without a port key makes SADD's argument
\* false: the SADD is skipped (error handed back) or the script stops there,
\* having added the ports of any of the other tenants.
RefreshOccupiedKeep(ts, po) ==
    {[err |-> "", occ |-> occupied \cup {po[t] : t \in {u \in ts : po[u] # 0}}]}

RefreshOccupiedScript(ts, po) ==
    LET keyed == {t \in ts : po[t] # 0}
    IN  {[err |-> "", occ |-> {po[t] : t \in keyed}]}
        \cup (IF keyed = ts THEN {}
              ELSE {[err |-> ScriptArgErr, occ |-> {po[t] : t \in done}] :
                        done \in SUBSET keyed})

(***************************************************************************)
(* main(): prepareDb(), then listen().                                     *)
(***************************************************************************)
\* prepareDb: dial, the script that rebuilds possible, refreshOccupiedPorts.
\* Any failure is a panic in main.
PrepareDb ==
    /\ phase = "boot"
    /\ UNCHANGED <<tenants, portOf, handler, lastRecv>>
    /\ \/ /\ phase' = "startfail"          \* dial or the first script fails
          /\ UNCHANGED <<possible, occupied, occ0>>
       \/ /\ phase' = "startfail"          \* the second script is not run
          /\ possible' = PoolRange
          /\ UNCHANGED <<occupied, occ0>>
       \/ \E r \in RefreshOccupiedScript(tenants, portOf) :
             /\ possible' = PoolRange
             /\ occupied' = r.occ
             /\ occ0' = r.occ
             /\ phase' = IF r.err = "" THEN "prepared" ELSE "startfail"

\* listen(): dial (a panic in main when it fails) and Subscribe.
Listen ==
    /\ phase = "prepared"
    /\ phase' \in {"listening", "startfail"}
    /\ UNCHANGED <<store, handler, occ0, lastRecv>>

\* The position of the receive loop: at psc.Receive(), whatever the handlers
\* it started are doing ("go handleInstruction(instr)" returns at once).
LoopAtReceiveSync ==
    /\ phase = "listening"
    /\ \A s \in Slots : handler[s].pc \in {"idle", "done"}

LoopAtReceiveEarly == phase \in {"boot", "prepared", "listening"}

LoopAtReceive == phase = "listening"

Free(s) == handler[s].pc \in {"idle", "done"}

\* A message that decodes: its handler is started in a free slot.
Receive(s, op, id, replyTo) ==
    /\ LoopAtReceive
    /\ Free(s)
    /\ handler' = [handler EXCEPT ![s] = Spawned(op, id, replyTo)]
    /\ lastRecv' = s
    /\ UNCHANGED <<phase, store, occ0>>

\* A message json.Unmarshal rejects: logged and dropped.
ReceiveUndecodable ==
    /\ LoopAtReceive
    /\ lastRecv # 0
    /\ lastRecv' = 0
    /\ UNCHANGED <<phase, store, handler, occ0>>

\* psc.Receive() returns an error: the loop returns, wg.Wait() ends, main
\* returns and the process exits with it.
ReceiveFail ==
    /\ LoopAtReceive
    /\ phase' = "exited"
    /\ UNCHANGED <<store, handler, occ0, lastRecv>>

\* The goroutines run while the process does.
Running == phase = "listening"

(***************************************************************************)
(* handleInstruction, one goroutine per decoded instruction.               *)
(*   pc: start -> (tool) -> (rel_fallback -> lookup) -> (rel_recover)      *)
(*             -> dispatch | recover -> done                               *)
(* A store command whose reply is lost may have been applied or not.  The  *)
(* history fields of a handler are kept while it runs; once it is done its *)
(* slot holds the instruction and the response published for it.           *)
(***************************************************************************)
Set(s, h) == handler' = [handler EXCEPT ![s] = h]

\* The recover handler deferred by handleInstruction takes over with the
\* panic value msg.
Panicked(h, msg) ==
    [h EXCEPT !.pc = "recover", !.perr = msg, !.port = 0, !.rsp = NoResponse]

\* handleInstruction has the response rsp to hand to dispatchResponse.
Respond(h, rsp) == [h EXCEPT !.pc = "dispatch", !.rsp = rsp, !.port = 0, !.perr = ""]

\* The recover handler deferred by setupInstance, entered with the panic
\* value msg: releasePort(c, port) returns at once when port <= 0, and
\* setupInstance returns (0, msg); else the SREM is the next round trip.
SetupRecover(h, msg) ==
    IF h.port <= 0
    THEN Respond(h, SetupResponse(h.Id, "ERROR", msg, 0))
    ELSE [h EXCEPT !.pc = "rel_recover", !.perr = msg]

\* The id check and the switch on instr.Op.
RouteNoIdCheck(op, id) ==
    IF op \in {"Setup", "Delete", "GetPort"} THEN op ELSE "unknown"

RouteNoDefault(op, id) ==
    IF ~IdMatches(id) THEN "invalid"
    ELSE IF op \in {"Setup", "Delete"} THEN op
    ELSE "GetPort"

Route(op, id) ==
    IF ~IdMatches(id) THEN "invalid"
    ELSE IF op \in {"Setup", "Delete", "GetPort"} THEN op
    ELSE "unknown"

\* An id idRe rejects: log.Panicf("Invalid id.").
RejectId(s) ==
    LET h == handler[s] IN
    /\ Running /\ h.pc = "start" /\ Route(h.Op, h.Id) = "invalid"
    /\ Set(s, Panicked(h, MsgInvalidId))
    /\ UNCHANGED <<phase, store, occ0, lastRecv>>

\* The default case of the switch.
UnknownOp(s) ==
    LET h == handler[s] IN
    /\ Running /\ h.pc = "start" /\ Route(h.Op, h.Id) = "unknown"
    /\ Set(s, Respond(h, PlainResponse("", "ERROR", MsgUnknownOp)))
    /\ UNCHANGED <<phase, store, occ0, lastRecv>>

\* getFreePort on the connection setupInstance dialled: the script runs and
\* its reply arrives.
CallGetFreePort(s) ==
    LET h == handler[s] IN
    /\ Running /\ h.pc = "start" /\ Route(h.Op, h.Id) = "Setup"
    /\ UNCHANGED <<phase, possible, tenants, portOf, occ0, lastRecv>>
    /\ \E r \in GetFreePortScript(possible, occupied) :
          /\ occupied' = r.occ
          /\ Set(s, IF r.err # ""
                    THEN SetupRecover(h, MsgFetch(r.err))
                    ELSE [h EXCEPT !.pc = "tool", !.port = r.ret, !.got = r.ret])

\* setupInstance's dial fails (before the recover is deferred), or the
\* script's command fails, the script run or not.
FailGetFreePort(s) ==
    LET h == [handler[s] EXCEPT !.fault = TRUE] IN
    /\ Running /\ h.pc = "start" /\ Route(h.Op, h.Id) = "Setup"
    /\ UNCHANGED <<phase, possible, tenants, portOf, occ0, lastRecv>>
    /\ \/ /\ Set(s, Panicked(h, MsgDial))
          /\ UNCHANGED occupied
       \/ \E r \in GetFreePortScript(possible, occupied) :
             /\ occupied' \in {occupied, r.occ}
             /\ Set(s, SetupRecover(h, MsgFetch(StoreErr)))

\* What setupInstance does with the tool's error text e ("" is nil) when
\* its local port is p: "ok", "fallback" (exit code 7) or the panic's text.
SetupOutcome(e, p) ==
    IF e = "" THEN "ok"
    ELSE IF ParseManagerError(e).ExitCode # 7
    THEN IF p = 0 THEN MsgNoFreePorts
         ELSE FormatManagerError(ParseManagerError(e))
    ELSE "fallback"

\* executeManagerOp("setup", id, port) returns with error text e.
SetupToolReturn(s) ==
    LET h == handler[s] IN
    /\ Running /\ h.pc = "tool" /\ h.Op = "Setup"
    /\ UNCHANGED <<phase, store, occ0, lastRecv>>
    /\ \E e \in ToolErrors :
         LET t == [h EXCEPT !.terr = e]
             o == SetupOutcome(e, t.port)
         IN  Set(s,
               IF o = "ok" THEN Respond(t, SetupResponse(t.Id, "OK", "", t.port))
               ELSE IF o # "fallback" THEN SetupRecover(t, o)
               ELSE IF t.port <= 0 THEN [t EXCEPT !.pc = "lookup"]
               ELSE [t EXCEPT !.pc = "rel_fallback"])

\* releasePort: SREM occupied port.
ReleaseKeep(occ, port) == occ

Release(occ, port) == occ \ {port}

\* The releasePort of the exit code 7 path.
ReleaseFallback(s) ==
    LET h == [handler[s] EXCEPT !.rel = @ + 1] IN
    /\ Running /\ h.pc = "rel_fallback"
    /\ UNCHANGED <<phase, possible, tenants, portOf, occ0, lastRecv>>
    /\ \/ /\ occupied' = Release(occupied, h.port)
          /\ Set(s, [h EXCEPT !.pc = "lookup"])
       \/ /\ occupied' \in {occupied, Release(occupied, h.port)}
          /\ Set(s, SetupRecover([h EXCEPT !.fault = TRUE],
                                 MsgRelease(h.port, StoreErr)))

\* getPort: GET of the tenant's port key, redis.Int of the reply.
GetPortZero(po, id) == [err |-> "", port |-> po[id]]

GetPort(po, id) ==
    IF po[id] = 0 THEN [err |-> ErrNil, port |-> 0]
    ELSE [err |-> "", port |-> po[id]]

\* The getPort of the exit code 7 path; port keeps its value when it panics.
SetupLookup(s) ==
    LET h == [handler[s] EXCEPT !.looked = TRUE]
        r == GetPort(portOf, h.Id)
    IN
    /\ Running /\ h.pc = "lookup"
    /\ UNCHANGED <<phase, store, occ0, lastRecv>>
    /\ \/ Set(s, IF r.err # "" THEN SetupRecover(h, MsgGetPort(h.Id, r.err))
                 ELSE Respond(h, SetupResponse(h.Id, "OK", "", r.port)))
       \/ Set(s, SetupRecover([h EXCEPT !.fault = TRUE],
                              MsgGetPort(h.Id, StoreErr)))

\* The releasePort of setupInstance's recover handler; its panic is not
\* recovered there and reaches handleInstruction's.
ReleaseRecover(s) ==
    LET h == [handler[s] EXCEPT !.rel = @ + 1] IN
    /\ Running /\ h.pc = "rel_recover"
    /\ UNCHANGED <<phase, possible, tenants, portOf, occ0, lastRecv>>
    /\ \/ /\ occupied' = Release(occupied, h.port)
          /\ Set(s, Respond(h, SetupResponse(h.Id, "ERROR", h.perr, 0)))
       \/ /\ occupied' \in {occupied, Release(occupied, h.port)}
          /\ Set(s, Panicked([h EXCEPT !.fault = TRUE],
                             MsgRelease(h.port, StoreErr)))

\* deleteInstance: dial, then the tool.
DeleteDial(s) ==
    LET h == handler[s] IN
    /\ Running /\ h.pc = "start" /\ Route(h.Op, h.Id) = "Delete"
    /\ UNCHANGED <<phase, store, occ0, lastRecv>>
    /\ \/ Set(s, [h EXCEPT !.pc = "tool"])
       \/ Set(s, Panicked([h EXCEPT !.fault = TRUE], MsgDial))

\* What deleteInstance returns for the tool's error text e ("" is nil).
DeleteErrorRaw(e) == e

DeleteError(e) == IF e = ExitStatus(9) THEN MsgNotExist ELSE e

\* executeManagerOp("delete", id) returns with error text e.
DeleteToolReturn(s) ==
    LET h == handler[s] IN
    /\ Running /\ h.pc = "tool" /\ h.Op = "Delete"
    /\ UNCHANGED <<phase, store, occ0, lastRecv>>
    /\ \E e \in ToolErrors :
         Set(s, Respond([h EXCEPT !.terr = e],
                        IF DeleteError(e) = ""
                        THEN PlainResponse(h.Id, "OK", "")
                        ELSE PlainResponse(h.Id, "ERROR", DeleteError(e))))

\* getExistingPort: dial (before the recover is deferred), then getPort,
\* whose panic the deferred recover turns into the returned error.
GetExistingPort(s) ==
    LET h == handler[s]
        r == GetPort(portOf, h.Id)
    IN
    /\ Running /\ h.pc = "start" /\ Route(h.Op, h.Id) = "GetPort"
    /\ UNCHANGED <<phase, store, occ0, lastRecv>>
    /\ \/ Set(s, Panicked([h EXCEPT !.fault = TRUE], MsgDial))
       \/ Set(s, Respond([h EXCEPT !.looked = TRUE],
                  IF r.err # ""
                  THEN SetupResponse(h.Id, "ERROR", MsgGetPort(h.Id, r.err), 0)
                  ELSE SetupResponse(h.Id, "OK", "", r.port)))
       \/ Set(s, Respond([h EXCEPT !.looked = TRUE, !.fault = TRUE],
                  SetupResponse(h.Id, "ERROR", MsgGetPort(h.Id, StoreErr), 0)))

\* The handler returns: its slot keeps the instruction.
Done(h) ==
    [Idle EXCEPT !.pc = "done", !.Op = h.Op, !.Id = h.Id, !.ReplyTo = h.ReplyTo]

\* History kept with a published response: the port getFreePort returned,
\* when the response is the OK of a Setup that hands out that very port.
Granted(h, rsp) ==
    IF h.got > 0 /\ h.rel = 0 /\ rsp = SetupResponse(h.Id, "OK", "", h.got)
    THEN h.got ELSE -1

\* dispatchResponse(recipient, rsp) whose PUBLISH goes through.
Published(h, recipient, rsp) ==
    [Done(h) EXCEPT !.rsp = rsp, !.npub = h.npub + 1,
                    !.chan = ResponseChannel(recipient),
                    !.got = Granted(h, rsp)]

\* dispatchResponse(instr.ReplyTo, rsp) in the switch: a failing dial
\* panics, the error of PUBLISH is dropped.
Dispatch(s) ==
    LET h == handler[s] IN
    /\ Running /\ h.pc = "dispatch"
    /\ UNCHANGED <<phase, store, occ0, lastRecv>>
    /\ \/ Set(s, Published(h, h.ReplyTo, h.rsp))
       \/ Set(s, Done(h))
       \/ Set(s, Panicked([h EXCEPT !.fault = TRUE], MsgDial))

\* The recover handler of handleInstruction: dispatchResponse of an ERROR
\* PlainResponse with the panic's text.  A failing dial panics in the
\* deferred function, where nothing recovers: the process dies.
Recover(s) ==
    LET h == handler[s] IN
    /\ Running /\ h.pc = "recover"
    /\ UNCHANGED <<store, occ0, lastRecv>>
    /\ \/ /\ Set(s, Published(h, h.ReplyTo, PlainResponse("", "ERROR", h.perr)))
          /\ UNCHANGED phase
       \/ /\ Set(s, Done(h))
          /\ UNCHANGED phase
       \/ /\ Set(s, [h EXCEPT !.fault = TRUE])
          /\ phase' = "crashed"

Step(s) ==
    \/ RejectId(s) \/ UnknownOp(s)
    \/ CallGetFreePort(s) \/ FailGetFreePort(s)
    \/ SetupToolReturn(s) \/ ReleaseFallback(s)
    \/ SetupLookup(s) \/ ReleaseRecover(s)
    \/ DeleteDial(s) \/ DeleteToolReturn(s)
    \/ GetExistingPort(s)
    \/ Dispatch(s) \/ Recover(s)

\* The instructions of the concurrent runs.
RecvIds == {"a", "b", ""}
RecvReplyTos == {"x"}

ReceiveAny == \E s \in Slots, op \in Ops, id \in RecvIds, replyTo \in RecvReplyTos :
                 Receive(s, op, id, replyTo)

Next ==
    \/ PrepareDb
    \/ Listen
    \/ ReceiveAny
    \/ ReceiveUndecodable
    \/ ReceiveFail
    \/ \E s \in Slots : Step(s)

Spec == Init /\ [][Next]_vars

(***************************************************************************)
(* One instruction handled alone, from any state of the store: the pool    *)
(* occupied in any way, each tenant bound to a port of the pool or to none. *)
(***************************************************************************)
SoloInit ==
    /\ phase = "listening"
    /\ possible = PoolRange
    /\ occupied \in SUBSET PoolRange
    /\ portOf \in [ValidIds -> {0} \cup PoolRange]
    /\ tenants = {id \in ValidIds : portOf[id] # 0}
    /\ \E op \in Ops, id \in Ids, replyTo \in ReplyTos :
          handler = [s \in Slots |-> IF s = 1 THEN Spawned(op, id, replyTo) ELSE Idle]
    /\ occ0 = occupied
    /\ lastRecv = 1

SoloNext == \E s \in Slots : Step(s)

SoloSpec == SoloInit /\ [][SoloNext]_vars

(***************************************************************************)
(* getFreePort alone: every slot holds a Setup about to call it, on a pool *)
(* of which any part is occupied; the calls run in any order.              *)
(***************************************************************************)
AllocInit ==
    /\ phase = "listening"
    /\ possible = PoolRange
    /\ occupied \in SUBSET PoolRange
    /\ portOf = [id \in ValidIds |-> 0]
    /\ tenants = {}
    /\ handler \in [Slots -> {Spawned("Setup", id, replyTo) :
                                 id \in ValidIds, replyTo \in ReplyTos}]
    /\ occ0 = occupied
    /\ lastRecv = 0

AllocNext == \E s \in Slots : CallGetFreePort(s)

AllocSpec == AllocInit /\ [][AllocNext]_vars

(***************************************************************************)
(* Start-up alone, on whatever an earlier run left in the store: the pool  *)
(* sets in any state, the tenant set any set of ids, each id with a port   *)
(* key or none.  A port key may hold a port of an earlier configuration    *)
(* that lies outside the pool configured now.                              *)
(***************************************************************************)
StalePort == TenantPortBase + MaxTenants

BootInit ==
    /\ phase = "boot"
    /\ possible \in {{}, PoolRange, PoolRange \cup {StalePort}}
    /\ occupied \in SUBSET (PoolRange \cup {StalePort})
    /\ portOf \in [ValidIds -> {0} \cup PoolRange \cup {StalePort}]
    /\ tenants \in SUBSET ValidIds
    /\ handler = [s \in Slots |-> Idle]
    /\ occ0 = {}
    /\ lastRecv = 0

BootNext == PrepareDb \/ Listen

BootSpec == BootInit /\ [][BootNext]_vars

(***************************************************************************)
(* persistPort, the bind step of the registry (the earlier version of the  *)
(* service calls it at the end of setup): SET of the tenant's port key,    *)
(* then SADD of the id to the tenant set, on one connection.  A caller     *)
(* performs it twice with the same id and port, on any registry.           *)
(***************************************************************************)
PersistPortIncr(ts, po, id, port) ==
    [tenants |-> ts \cup {id}, portOf |-> [po EXCEPT ![id] = @ + port]]

PersistPort(ts, po, id, port) ==
    [tenants |-> ts \cup {id}, portOf |-> [po EXCEPT ![id] = port]]

\* pc: bind -> bound -> bound2, or bind_panic when a command fails: the SET
\* applied or not, the SADD applied only after the SET.
PersistPortCall(s) ==
    LET h == handler[s]
        r == PersistPort(tenants, portOf, h.Id, h.port)
    IN
    /\ Running /\ h.pc \in {"bind", "bound"}
    /\ UNCHANGED <<phase, possible, occupied, occ0, lastRecv>>
    /\ \/ /\ tenants' = r.tenants /\ portOf' = r.portOf
          /\ Set(s, [h EXCEPT !.pc = IF h.pc = "bind" THEN "bound" ELSE "bound2"])
       \/ /\ \/ UNCHANGED <<tenants, portOf>>
             \/ portOf' = r.portOf /\ tenants' \in {tenants, r.tenants}
          /\ Set(s, [h EXCEPT !.pc = "bind_panic", !.fault = TRUE])

BindInit ==
    /\ phase = "listening"
    /\ possible = PoolRange
    /\ occupied = {}
    /\ portOf \in [ValidIds -> {0} \cup PoolRange]
    /\ tenants \in SUBSET ValidIds
    /\ \E id \in ValidIds, port \in PoolRange :
          handler = [s \in Slots |->
                       IF s = 1 THEN [Idle EXCEPT !.pc = "bind", !.Id = id, !.port = port]
                       ELSE Idle]
    /\ occ0 = {}
    /\ lastRecv = 0

BindNext == \E s \in Slots : PersistPortCall(s)

BindSpec == BindInit /\ [][BindNext]_vars

(***************************************************************************)
(* Claims.                                                                 *)
(***************************************************************************)
\* The calls of getFreePort that returned a port, and those that returned 0.
GotPort == {s \in Slots : handler[s].got > 0}
GotZero == {s \in Slots : handler[s].got = 0}

\* C1 (AllocSpec): allocation exclusivity.  Of N calls of getFreePort on a
\* pool of K ports, occupied_count of them occupied, every nonzero port
\* returned is in possible, none is returned twice, and once all N have
\* returned, at least N - (K - occupied_count) of them returned 0.
C1_AllocationExclusivity ==
    /\ \A s \in GotPort : handler[s].got \in possible
    /\ \A s, t \in GotPort : s # t => handler[s].got # handler[t].got
    /\ (\A s \in Slots : handler[s].pc # "start") =>
          Cardinality(GotZero) >=
             Cardinality(Slots) - (Cardinality(possible) - Cardinality(occ0))

\* The Setup in slot s holds port p: getFreePort returned p to it and it
\* has issued no release of it, and it is still in flight or has published
\* the OK response that carries p.
Holds(s, p) ==
    LET h == handler[s] IN
    /\ h.Op = "Setup" /\ p > 0 /\ h.got = p /\ h.rel = 0
    /\ \/ h.pc \in {"tool", "rel_fallback", "rel_recover", "dispatch"}
       \/ h.pc = "done" /\ h.npub = 1 /\ h.rsp = SetupResponse(h.Id, "OK", "", p)

\* C2 (Spec): a port is never assigned to two tenants.  While a port that
\* getFreePort returned is held by an in-flight Setup, or was returned in
\* the OK response of a Setup, no Setup for another tenant id gets it.
C2_NoPortToTwoTenants ==
    \A s, t \in Slots : \A p \in PoolRange :
        (s # t /\ Holds(s, p) /\ Holds(t, p)) => handler[s].Id = handler[t].Id

\* C3 (Spec): exactly one response per decoded instruction.  No instruction
\* has more than one response published, and once its handler has finished
\* it has one, on "landlord.response." + ReplyTo.
C3_ExactlyOneResponse ==
    \A s \in Slots :
        /\ handler[s].npub <= 1
        /\ handler[s].pc = "done" =>
              /\ handler[s].npub = 1
              /\ handler[s].chan = "landlord.response." \o handler[s].ReplyTo

\* C4 (Spec): failure isolation.  No failure raised while an instruction is
\* handled terminates the service process.
C4_FailureIsolation == phase # "crashed"

\* The slot's goroutine is inside handleInstruction.
InFlight(s) == handler[s].pc \notin {"idle", "done"}

\* C5 (Spec): the receive loop never waits for a handler.  While a handler
\* sits in the provisioning tool the loop, as long as it runs, can decode
\* the next instruction and start its handler, and every other handler in
\* flight can take its next step.
C5_LoopNeverWaits ==
    \A s \in Slots :
        (phase = "listening" /\ handler[s].pc = "tool") =>
            \A t \in Slots \ {s} :
                /\ Free(t) => ENABLED (\E op \in Ops, id \in RecvIds, r \in RecvReplyTos :
                                          Receive(t, op, id, r))
                /\ InFlight(t) => ENABLED Step(t)

\* C5 witness: an instruction decoded after the one still in the tool has
\* been handled and answered.
C5_Witness ==
    \E s, t \in Slots :
        /\ s # t /\ phase = "listening"
        /\ handler[s].pc = "tool"
        /\ lastRecv = t /\ handler[t].pc = "done" /\ handler[t].npub = 1

\* The handler in slot s returns with this step.
Finishes(s) ==
    /\ handler[s].pc \in {"dispatch", "recover"}
    /\ handler'[s].pc = "done"

\* The step publishes the response of slot s, no store command or dial of
\* its handler having failed.
Answers(s) ==
    /\ Finishes(s)
    /\ ~handler[s].fault
    /\ handler'[s].npub = 1

\* C6 (SoloSpec): Setup fallback.  When the tool exits with code 7 for
\* Setup(id) and the registry binds id to port p, the response is OK with
\* Port p, and when the handler has finished the occupied set is what it
\* was before the Setup.
C6_SetupFallback ==
    [][\A s \in Slots :
         (/\ Answers(s)
          /\ handler[s].Op = "Setup"
          /\ handler[s].terr = "exit status 7"
          /\ portOf[handler[s].Id] # 0)
         => /\ handler'[s].rsp =
                  SetupResponse(handler[s].Id, "OK", "", portOf[handler[s].Id])
            /\ occupied' = occ0]_vars

\* C6 witness: the fallback has released the port it got and built the OK
\* response from the registry.
C6_Witness ==
    \E s \in Slots :
        LET h == handler[s] IN
        /\ h.pc = "dispatch" /\ h.Op = "Setup" /\ ~h.fault
        /\ h.terr = "exit status 7" /\ h.got > 0 /\ h.rel = 1 /\ h.looked
        /\ portOf[h.Id] # 0 /\ portOf[h.Id] # h.got
        /\ h.rsp = SetupResponse(h.Id, "OK", "", portOf[h.Id])
        /\ occupied = occ0

\* C7 (SoloSpec): pool exhaustion is reported distinctly.  Whenever the
\* getFreePort of a Setup returned 0, the response of the Setup is ERROR
\* with the "No free ports" message, whatever the tool's exit status.
C7_ExhaustionReported ==
    \A s \in Slots :
        LET h == handler[s] IN
        (h.pc = "dispatch" /\ h.Op = "Setup" /\ h.got = 0 /\ ~h.fault)
        => h.rsp = SetupResponse(h.Id, "ERROR",
                     "No free ports. Increase MaxTenants, or set up a new Landlord server.", 0)

\* C8 (SoloSpec): invalid id rejection.  The handler of an instruction whose
\* Id idRe rejects, whatever its Op, calls neither getFreePort nor
\* releasePort nor getPort nor the tool, leaves possible, occupied and the
\* registry as they are, and the response it publishes is an ERROR
\* PlainResponse.
C8_InvalidIdRejected ==
    [][\A s \in Slots :
         (/\ handler[s].pc # "idle"
          /\ handler[s].Id \in InvalidIds
          /\ handler'[s] # handler[s])
         => /\ UNCHANGED store
            /\ handler'[s].got = -1 /\ handler'[s].rel = 0
            /\ ~handler'[s].looked /\ handler'[s].terr = "-"
            /\ handler'[s].pc \in {"recover", "done"}
            /\ handler'[s].npub = 1 =>
                  handler'[s].rsp = PlainResponse("", "ERROR", "Invalid id.")]_vars

\* C8 witness: the handler of an instruction with an invalid id has
\* published its ERROR response, the pool as it was.
C8_Witness ==
    \E s \in Slots :
        /\ handler[s].pc = "done" /\ handler[s].Id \in InvalidIds
        /\ handler[s].Op = "Setup"
        /\ handler[s].npub = 1
        /\ handler[s].rsp = PlainResponse("", "ERROR", "Invalid id.")
        /\ occupied = occ0

\* C9 (SoloSpec): unknown op.  An instruction with a valid Id and an Op
\* other than Setup, Delete and GetPort is answered with
\* PlainResponse{Status:"ERROR", Error:"Unknown operation."} on
\* "landlord.response." + ReplyTo; its handler changes neither the pool nor
\* the registry and does not run the tool.
C9_UnknownOp ==
    [][\A s \in Slots :
         (/\ handler[s].pc # "idle"
          /\ handler[s].Id \in ValidIds
          /\ handler[s].Op \notin {"Setup", "Delete", "GetPort"}
          /\ handler'[s] # handler[s])
         => /\ UNCHANGED store
            /\ handler'[s].terr = "-" /\ handler'[s].got = -1
            /\ handler'[s].rel = 0 /\ ~handler'[s].looked
            /\ Answers(s) =>
                  /\ handler'[s].rsp = PlainResponse("", "ERROR", "Unknown operation.")
                  /\ handler'[s].chan = "landlord.response." \o handler[s].ReplyTo]_vars

\* C9 witness: the answer to a Bogus instruction has been published.
C9_Witness ==
    \E s \in Slots :
        /\ handler[s].pc = "done" /\ handler[s].Id \in ValidIds
        /\ handler[s].Op = "Bogus" /\ handler[s].ReplyTo = "y"
        /\ handler[s].npub = 1
        /\ handler[s].rsp = PlainResponse("", "ERROR", "Unknown operation.")
        /\ handler[s].chan = "landlord.response.y"

\* The response the claim expects of a Delete(id) whose tool returned the
\* error text e.
DeleteExpected(id, e) ==
    CASE e = "" -> PlainResponse(id, "OK", "")
      [] e = "exit status 9" -> PlainResponse(id, "ERROR", "Instance does not exist.")
      [] OTHER -> PlainResponse(id, "ERROR", e)

\* C10 (SoloSpec): Delete outcomes.  Delete(id) is answered OK when the tool
\* exits 0, ERROR "Instance does not exist." when it exits with code 9, and
\* ERROR with the raw exit status text for any other failure of the tool.
C10_DeleteOutcomes ==
    [][\A s \in Slots :
         (/\ Answers(s)
          /\ handler[s].Op = "Delete"
          /\ handler[s].terr # "-")
         => handler'[s].rsp = DeleteExpected(handler[s].Id, handler[s].terr)]_vars

\* C10 witness: a Delete whose tool exited with code 9 has been answered.
C10_Witness ==
    \E s \in Slots :
        /\ handler[s].pc = "done" /\ handler[s].Op = "Delete"
        /\ handler[s].npub = 1
        /\ handler[s].rsp =
              PlainResponse(handler[s].Id, "ERROR", "Instance does not exist.")

\* C11 (SoloSpec): GetPort(id) is answered OK with the registry's port when
\* id is bound, and ERROR, never OK with Port 0, when id has no binding;
\* its handler leaves possible, occupied and the registry as they are.
C11_GetPort ==
    [][\A s \in Slots :
         (/\ handler[s].pc # "idle"
          /\ handler[s].Op = "GetPort"
          /\ handler[s].Id \in ValidIds
          /\ handler'[s] # handler[s])
         => /\ UNCHANGED store
            /\ Answers(s) =>
                  IF portOf[handler[s].Id] # 0
                  THEN handler'[s].rsp =
                          SetupResponse(handler[s].Id, "OK", "", portOf[handler[s].Id])
                  ELSE /\ handler'[s].rsp.Status = "ERROR"
                       /\ handler'[s].rsp.Error # ""
                       /\ handler'[s].rsp.Port = 0]_vars

\* C11 witness: a GetPort for an id without binding has been answered ERROR.
C11_Witness ==
    \E s \in Slots :
        /\ handler[s].pc = "done" /\ handler[s].Op = "GetPort"
        /\ handler[s].Id \in ValidIds /\ portOf[handler[s].Id] = 0
        /\ handler[s].npub = 1
        /\ handler[s].rsp.Status = "ERROR" /\ handler[s].rsp.Port = 0
        /\ occupied = occ0

\* The ports the registry binds to the ids of the tenant set.
BoundPorts == {portOf[t] : t \in {u \in tenants : portOf[u] # 0}}

\* C12 (BootSpec): rebuild fidelity.  Right after prepareDb, whatever
\* occupied held before and whatever the registry holds, occupied is exactly
\* the set of ports bound to the ids of the tenant set.
C12_RebuildFidelity == phase = "prepared" => occupied = BoundPorts

\* C12 witness: prepareDb has completed on a registry with a tenant whose
\* port is now occupied and a port key of an id outside the tenant set,
\* whose port is not.
C12_Witness ==
    /\ phase = "prepared"
    /\ \E t \in tenants : portOf[t] # 0 /\ portOf[t] \in occupied
    /\ \E u \in ValidIds \ tenants : portOf[u] # 0 /\ portOf[u] \notin occupied

\* C13 (BootSpec): once prepareDb has completed, for any registry content
\* present at startup, possible is {base..base+count-1} and occupied is a
\* subset of it.
C13_OccupiedWithinPossible ==
    phase \in {"prepared", "listening"} =>
        /\ possible = TenantPortBase..(TenantPortBase + MaxTenants - 1)
        /\ occupied \subseteq possible

\* The registered tenants the registry binds to port p.
BoundTo(p) == {t \in tenants : portOf[t] = p}

\* C14 (Spec): occupied is a faithful cache of the bindings.  From a
\* registry that binds no port to two tenants, in every state in which the
\* service listens and no handler is in flight, a port is in occupied if
\* and only if it is bound to exactly one registered tenant.
C14_OccupiedFaithful ==
    (/\ phase = "listening"
     /\ \A s \in Slots : ~InFlight(s)
     /\ \A p \in PoolRange : Cardinality(BoundTo(p)) <= 1)
    => \A p \in PoolRange : p \in occupied <=> Cardinality(BoundTo(p)) = 1

\* The call of getFreePort in slot s has returned and is the only one made
\* so far: it found occupied as occ0 records it.
FirstCall(s) ==
    /\ handler[s].pc # "start"
    /\ \A t \in Slots \ {s} : handler[t].pc = "start"

MinOf(S) == CHOOSE x \in S : \A y \in S : x <= y

\* C15 (AllocSpec): getFreePort picks the lowest free port.  When
\* possible \ occupied is not empty the call returns its numerically
\* smallest element and adds exactly that port to occupied.
C15_LowestFreePort ==
    \A s \in Slots :
        (FirstCall(s) /\ possible \ occ0 # {})
        => /\ handler[s].got = MinOf(possible \ occ0)
           /\ occupied = occ0 \cup {MinOf(possible \ occ0)}

\* C16 (AllocSpec): exhaustion sentinel.  When possible \ occupied is empty
\* getFreePort returns 0 as a normal result, no error and no panic, and
\* occupied is left as it was.
C16_ExhaustionSentinel ==
    \A s \in Slots :
        (FirstCall(s) /\ possible \ occ0 = {})
        => /\ handler[s].got = 0
           /\ handler[s].pc = "tool"
           /\ occupied = occ0

\* C17 (SoloSpec): Setup creates the binding.  Once a Setup(id) has been
\* answered OK with Port p, the registry binds id to p, which is what a
\* following GetPort(id) reads, and id is in the tenant set.
C17_SetupCreatesBinding ==
    \A s \in Slots :
        (/\ handler[s].pc = "done" /\ handler[s].Op = "Setup"
         /\ handler[s].npub = 1
         /\ handler[s].rsp.shape = "Setup" /\ handler[s].rsp.Status = "OK")
        => /\ portOf[handler[s].Id] = handler[s].rsp.Port
           /\ GetPort(portOf, handler[s].Id) = [err |-> "", port |-> handler[s].rsp.Port]
           /\ handler[s].Id \in tenants

\* C18 (BindSpec): idempotent bind.  For every id and port and every
\* registry, performing persistPort(id, port) a second time leaves the
\* id's port key and the tenant set exactly as the first left them.
C18_IdempotentBind ==
    [][\A s \in Slots :
         (handler[s].pc = "bound" /\ handler'[s].pc = "bound2")
         => UNCHANGED <<tenants, portOf>>]_vars

\* C18 witness: the bind has been performed twice and the registry holds
\* the binding.
C18_Witness ==
    \E s \in Slots :
        /\ handler[s].pc = "bound2"
        /\ portOf[handler[s].Id] = handler[s].port
        /\ handler[s].Id \in tenants

\* C19 (SoloSpec): a failed Setup leaks no port.  When a Setup that got a
\* nonzero port from getFreePort is left with an ERROR response to publish
\* (fatal exit code of the tool, failed fallback lookup, store failure),
\* the port is no longer in occupied.
C19_FailedSetupLeaksNoPort ==
    \A s \in Slots :
        LET h == handler[s] IN
        (/\ h.Op = "Setup" /\ h.got > 0
         /\ \/ h.pc = "dispatch" /\ h.rsp.Status = "ERROR"
            \/ h.pc = "recover")
        => h.got \notin occupied

\* The Setup in slot s is in flight and has its OK response to publish.
SetupOkPending(s) ==
    /\ handler[s].Op = "Setup" /\ handler[s].pc = "dispatch"
    /\ handler[s].rsp.Status = "OK"

\* C20 (Spec): racing Setups for the same tenant agree.  Two Setup
\* instructions for the same id that are in flight together and are both
\* answered OK carry the same Port.
C20_RacingSetupsAgree ==
    \A s, t \in Slots :
        (/\ s # t /\ SetupOkPending(s) /\ SetupOkPending(t)
         /\ handler[s].Id = handler[t].Id)
        => handler[s].rsp.Port = handler[t].rsp.Port

\* The fixed cause of each exit code of the provisioning tool.
ExitCodeCause(c) ==
    CASE c = 1 -> "Invalid command."
      [] c = 2 -> "Invalid instance id."
      [] c = 3 -> "Invalid port."
      [] c = 4 -> "Sudo required."
      [] c = 5 -> "Already installed"
      [] c = 6 -> "Landlord not installed correctly."
      [] c = 7 -> "Instance already exists."
      [] c = 8 -> "Instance not enabled."
      [] c = 9 -> "Instance does not exist."

\* C21 (SoloSpec): Setup surfaces the classified cause verbatim.  When the
\* tool exits with a code c of 1..9 other than 7 after getFreePort returned
\* a nonzero port, the response of the Setup is ERROR with Port 0 and Error
\* exactly the cause text of c.
C21_SetupCauseVerbatim ==
    \A s \in Slots : \A c \in (1..9) \ {7} :
        LET h == handler[s] IN
        (/\ h.pc = "dispatch" /\ h.Op = "Setup" /\ ~h.fault
         /\ h.got > 0 /\ h.terr = "exit status " \o ToString(c))
        => h.rsp = SetupResponse(h.Id, "ERROR", ExitCodeCause(c), 0)

\* C22 (Spec): initialization precedes dispatch.  An instruction is
\* received, and a handler started or run, only while the service listens,
\* which it does only after prepareDb has completed, with possible built;
\* prepareDb completes with occupied rebuilt from the registry; and once
\* start-up has failed nothing is ever received or handled.
C22_InitPrecedesDispatch ==
    [][/\ (handler' # handler \/ lastRecv' # lastRecv)
            => phase = "listening" /\ possible = PoolRange
       /\ phase' = "listening" => phase \in {"prepared", "listening"}
       /\ (phase' = "prepared" /\ phase # "prepared")
            => /\ phase = "boot"
               /\ possible' = PoolRange
               /\ occupied' = {portOf[t] : t \in {u \in tenants : portOf[u] # 0}}
       /\ phase = "startfail"
            => phase' = "startfail" /\ handler' = handler /\ lastRecv' = lastRecv]_vars

\* C22 witness: an instruction has been received and answered, after a
\* prepareDb that had possible to build.
C22_Witness ==
    /\ phase = "listening" /\ possible = PoolRange
    /\ lastRecv # 0
    /\ handler[lastRecv].pc = "done" /\ handler[lastRecv].npub = 1

\* C23 (SoloSpec): release only what you hold.  A Setup handler issues a
\* removal from occupied only for the port its own getFreePort returned,
\* and, no store command of its having failed, at most once.
C23_ReleaseOnlyHeld ==
    \A s \in Slots :
        LET h == handler[s] IN
        /\ ~h.fault => h.rel <= 1
        /\ h.pc \in {"rel_fallback", "rel_recover"} => h.port = h.got /\ h.got > 0

=============================================================================
